---- MODULE Spec2Model ----
(***************************************************************************)
(* lazytrader: the ledger (internal/database), the execution engine        *)
(* (internal/executor) and the Polymarket event listener                   *)
(* (internal/listener), modelled as state machines.                        *)
(*                                                                         *)
(*   Spec         the execution engine: calls of Executor.ExecuteTrade     *)
(*                running against the ledger                               *)
(*   SpecLedger   the ledger's own operations, called with any arguments   *)
(*   SpecListener the listener: Start, updateTopTraders, processBlock and  *)
(*                pollHistoricalBlocks running concurrently                *)
(*   SpecExtract  extractTradeSignal applied to any event and flags        *)
(***************************************************************************)
EXTENDS Integers, Sequences, FiniteSets, TLC

(***************************************************************************)
(* Bounds of the model.                                                    *)
(***************************************************************************)
\* calls of ExecuteTrade (deliveries of a signal to the execution pipeline)
MaxCalls == 2
\* rows per table when the ledger's operations are called directly
MaxRows == 2
\* block headers delivered to Start by the subscription
MaxBlocks == 2
\* cfg.TopTradersCount, the configured LIMIT of GetTopTraders
TopTradersCount == 2

VARIABLES
    positions,     \* table positions, in id order
    trades,        \* table trades, in id order
    calls,         \* the calls of ExecuteTrade: position in the code and locals
    leaderboard,   \* table top_traders: the addresses, by total_pnl descending
    topTraders,    \* l.topTraders: the keys of the map (every value is true)
    prevTopTraders,\* the map l.topTraders held before the last refresh began
    upd,           \* goroutine updateTopTraders: position and locals
    w,             \* goroutine Start/processBlock: position and locals
    poll,          \* goroutine pollHistoricalBlocks: position
    ctxDone,       \* the context passed to Start is cancelled
    crashed,       \* the runtime ended the process (fatal error)
    xin,           \* SpecExtract: the arguments of extractTradeSignal
    xout           \* SpecExtract: its result

ledgerVars == <<positions, trades>>
listenerVars ==
    <<leaderboard, topTraders, prevTopTraders, upd, w, poll, ctxDone, crashed>>
extractVars == <<xin, xout>>
vars == <<positions, trades, calls, leaderboard, topTraders, prevTopTraders,
          upd, w, poll, ctxDone, crashed, xin, xout>>

(***************************************************************************)
(* internal/database: rows and operations.  A float64 amount or price is   *)
(* modelled by an integer; a NULL column by Null.                          *)
(***************************************************************************)
Null == "NULL"

\* fmt.Sprintf("0x%064x", 12345), the hash submitTrade returns
MockTxHash == "0x0000000000000000000000000000000000000000000000000000000000003039"

TradeStatuses == {"pending", "confirmed", "failed"}

\* INSERT INTO positions (...): AUTOINCREMENT id, status DEFAULT 'open',
\* closed_at NULL
CreatePosition(ps, marketID, tokenID, outcome, amount, price) ==
    Append(ps, [ID           |-> Len(ps) + 1,
                MarketID     |-> marketID,
                TokenID      |-> tokenID,
                Outcome      |-> outcome,
                Amount       |-> amount,
                AvgPrice     |-> price,
                CurrentPrice |-> price,
                Status       |-> "open",
                ClosedAt     |-> Null])

\* INSERT INTO trades (...): AUTOINCREMENT id, tx_hash not given (NULL),
\* status 'pending'
CreateTrade(ts, positionID, traderAddr, side, amount, price) ==
    Append(ts, [ID            |-> Len(ts) + 1,
                PositionID    |-> positionID,
                TraderAddress |-> traderAddr,
                Side          |-> side,
                Amount        |-> amount,
                Price         |-> price,
                TxHash        |-> Null,
                Status        |-> "pending"])

\* UpdateTradeStatus that sets the status and leaves tx_hash alone
UpdateTradeStatusOnly(ts, tradeID, status, txHash) ==
    [i \in DOMAIN ts |->
        IF ts[i].ID = tradeID
        THEN [ts[i] EXCEPT !.Status = status]
        ELSE ts[i]]

\* UPDATE trades SET status = ?, tx_hash = ? WHERE id = ?
UpdateTradeStatus(ts, tradeID, status, txHash) ==
    [i \in DOMAIN ts |->
        IF ts[i].ID = tradeID
        THEN [ts[i] EXCEPT !.Status = status, !.TxHash = txHash]
        ELSE ts[i]]

(***************************************************************************)
(* internal/executor: TradeRequest and ExecuteTrade.                       *)
(***************************************************************************)
\* The idempotency key (transaction hash, order hash) of a fill.
Keys == {<<"0xtx1", "0xorder1">>, <<"0xtx2", "0xorder2">>}

\* The signals that can be delivered: the fill's key and the TradeRequest
\* built for it.  TradeRequest itself has no field for the key.
TradeRequestOf(key) ==
    IF key = <<"0xtx1", "0xorder1">>
    THEN [MarketID |-> "market", TokenID |-> "77", Outcome |-> "YES",
          Side |-> "buy", Amount |-> 20, Price |-> 2]
    ELSE [MarketID |-> "market", TokenID |-> "88", Outcome |-> "NO",
          Side |-> "sell", Amount |-> 10, Price |-> 0]

CallIds == 1..MaxCalls

IdleCall ==
    [pc |-> "idle", key |-> <<>>, req |-> <<>>, position |-> 0, trade |-> 0,
     submits |-> 0, txHash |-> "", ret |-> "none"]

\* ExecuteTrade(req) is entered (line 70-71)
ExecuteTrade(c) ==
    /\ calls[c].pc = "idle"
    /\ \E key \in Keys :
          calls' = [calls EXCEPT ![c] = [IdleCall EXCEPT
                        !.pc = "CreatePosition",
                        !.key = key,
                        !.req = TradeRequestOf(key)]]
    /\ UNCHANGED <<ledgerVars, listenerVars, extractVars>>

\* position, err := e.db.CreatePosition(...) (lines 73-77)
ExecuteTradeCreatePosition(c) ==
    /\ calls[c].pc = "CreatePosition"
    /\ LET req == calls[c].req IN
       \/ /\ positions' = CreatePosition(positions, req.MarketID, req.TokenID,
                                         req.Outcome, req.Amount, req.Price)
          /\ calls' = [calls EXCEPT ![c].position = Len(positions) + 1,
                                    ![c].pc = "CreateTrade"]
       \/ /\ positions' = positions
          /\ calls' = [calls EXCEPT ![c].pc = "returned",
                                    ![c].ret = "failed to create position"]
    /\ UNCHANGED <<trades, listenerVars, extractVars>>

\* ExecuteTradeCreateTrade going on to the submission when the insert fails
ExecuteTradeCreateTradeIgnoresError(c) ==
    /\ calls[c].pc = "CreateTrade"
    /\ LET req == calls[c].req IN
       \/ /\ trades' = CreateTrade(trades, calls[c].position, "", req.Side,
                                   req.Amount, req.Price)
          /\ calls' = [calls EXCEPT ![c].trade = Len(trades) + 1,
                                    ![c].pc = "submitTrade"]
       \/ /\ trades' = trades
          /\ calls' = [calls EXCEPT ![c].pc = "submitTrade"]
    /\ UNCHANGED <<positions, listenerVars, extractVars>>

\* trade, err := e.db.CreateTrade(position.ID, "", req.Side, ...) (lines 79-83)
ExecuteTradeCreateTrade(c) ==
    /\ calls[c].pc = "CreateTrade"
    /\ LET req == calls[c].req IN
       \/ /\ trades' = CreateTrade(trades, calls[c].position, "", req.Side,
                                   req.Amount, req.Price)
          /\ calls' = [calls EXCEPT ![c].trade = Len(trades) + 1,
                                    ![c].pc = "submitTrade"]
       \/ /\ trades' = trades
          /\ calls' = [calls EXCEPT ![c].pc = "returned",
                                    ![c].ret = "failed to create trade"]
    /\ UNCHANGED <<positions, listenerVars, extractVars>>

\* txHash, err := e.submitTrade(req) (lines 85-87, 101-117): building the
\* transactor returns an error, or the mock hash is returned.  Nothing is
\* retried: the call is counted in submits.
ExecuteTradeSubmit(c) ==
    /\ calls[c].pc = "submitTrade"
    /\ \/ calls' = [calls EXCEPT ![c].submits = @ + 1,
                                 ![c].txHash = MockTxHash,
                                 ![c].pc = "markConfirmed"]
       \/ calls' = [calls EXCEPT ![c].submits = @ + 1,
                                 ![c].txHash = "",
                                 ![c].pc = "markFailed"]
    /\ UNCHANGED <<ledgerVars, listenerVars, extractVars>>

\* e.db.UpdateTradeStatus(trade.ID, "failed", "") whose error is dropped,
\* then the submission error is returned (lines 87-90)
ExecuteTradeMarkFailed(c) ==
    /\ calls[c].pc = "markFailed"
    /\ \/ trades' = UpdateTradeStatus(trades, calls[c].trade, "failed", "")
       \/ trades' = trades
    /\ calls' = [calls EXCEPT ![c].pc = "returned",
                              ![c].ret = "failed to submit trade"]
    /\ UNCHANGED <<positions, listenerVars, extractVars>>

\* e.db.UpdateTradeStatus(trade.ID, "confirmed", txHash) whose error is only
\* logged, then nil is returned (lines 92-98)
ExecuteTradeMarkConfirmed(c) ==
    /\ calls[c].pc = "markConfirmed"
    /\ \/ trades' = UpdateTradeStatus(trades, calls[c].trade, "confirmed",
                                      calls[c].txHash)
       \/ trades' = trades
    /\ calls' = [calls EXCEPT ![c].pc = "returned", ![c].ret = "nil"]
    /\ UNCHANGED <<positions, listenerVars, extractVars>>


(***************************************************************************)
(* The ledger's operations called directly, with any arguments.  An Exec   *)
(* that fails leaves the table as it was.                                  *)
(***************************************************************************)
LedgerCreatePosition ==
    /\ Len(positions) < MaxRows
    /\ \E tokenID \in {"77", "88"} :
          \/ positions' = CreatePosition(positions, "market", tokenID, "YES",
                                         20, 2)
          \/ positions' = positions
    /\ UNCHANGED <<trades, calls, listenerVars, extractVars>>

LedgerCreateTrade ==
    /\ Len(trades) < MaxRows
    /\ \E positionID \in 1..Len(positions) :
          \/ trades' = CreateTrade(trades, positionID, "", "buy", 20, 2)
          \/ trades' = trades
    /\ UNCHANGED <<positions, calls, listenerVars, extractVars>>

LedgerUpdateTradeStatus ==
    /\ \E tradeID \in 1..MaxRows, status \in TradeStatuses,
          txHash \in {"", MockTxHash} :
          \/ trades' = UpdateTradeStatus(trades, tradeID, status, txHash)
          \/ trades' = trades
    /\ UNCHANGED <<positions, calls, listenerVars, extractVars>>

(***************************************************************************)
(* internal/listener: addresses, logs and events.                          *)
(*                                                                         *)
(* A common.Address is modelled by a number (0 is the zero address), its   *)
(* Hex() by the mixed-case checksum string, an address string of the       *)
(* ledger by a string that may be in any case.                             *)
(***************************************************************************)
Addresses == {0, 1, 2}

\* common.Address.Hex(): the EIP-55 form; the zero address has no letter
Hex(a) ==
    CASE a = 0 -> "0x00"
      [] a = 1 -> "0xAa"
      [] a = 2 -> "0xBb"

\* strings.ToLower
ToLower(str) ==
    CASE str = "0xAa" -> "0xaa"
      [] str = "0xAA" -> "0xaa"
      [] str = "0xBb" -> "0xbb"
      [] str = "0xBB" -> "0xbb"
      [] OTHER -> str

\* A nil *big.Int is <<>>, a value v is <<v>>.
Nil == <<>>
Some(v) == <<v>>

\* The contents top_traders can have, as ORDER BY total_pnl DESC lists them.
\* UpsertTopTrader adds and updates rows and nothing deletes one.
Leaderboards ==
    { <<>>,
      <<"0x00">>,
      <<"0x00", "0xAa">>,
      <<"0xAa", "0xbb", "0x00">> }

Range(seq) == {seq[i] : i \in DOMAIN seq}

Min(a, b) == IF a < b THEN a ELSE b

\* SELECT address FROM top_traders ORDER BY total_pnl DESC LIMIT ?: the rows
\* scanned until rows.Next() is false.  rows.Err() is not looked at, so an
\* iteration that fails returns the rows read so far and a nil error.
GetTopTraders(board, limit) ==
    {SubSeq(board, 1, n) : n \in 0..Min(limit, Len(board))}

\* The event topics FilterLogs asks for (orderFilledSig, ordersMatchedSig).
OrderFilledSig == "OrderFilled(bytes32,address,address,uint256,uint256,uint256,uint256,uint256)"
OrdersMatchedSig == "OrdersMatched(bytes32,bytes32[],uint256,uint256,uint256,uint256)"

\* The data of an OrderFilled log: the five uint256 words that are not
\* indexed, in the order of the ABI.
FillData(makerAssetId, takerAssetId, makerAmountFilled, takerAmountFilled) ==
    <<makerAssetId, takerAssetId, makerAmountFilled, takerAmountFilled, 0>>

\* types.Log: Topics (Go's Topics[0] is Topics[1] here), Data (a sequence of
\* 32-byte words) and TxHash.
BuyLog ==
    [Topics |-> <<OrderFilledSig, "0xorder1", 1, 2>>,
     Data |-> FillData(0, 77, 10000000, 20), TxHash |-> "0xtx1"]
SellLog ==
    [Topics |-> <<OrderFilledSig, "0xorder2", 2, 1>>,
     Data |-> FillData(77, 0, 20, 1500), TxHash |-> "0xtx2"]
MalformedLog ==
    [Topics |-> <<OrderFilledSig, "0xorder3", 1, 2>>,
     Data |-> <<0, 77>>, TxHash |-> "0xtx3"]
MatchedLog ==
    [Topics |-> <<OrdersMatchedSig, "0xorder1">>,
     Data |-> <<1, 0, 77, 10000000, 20>>, TxHash |-> "0xtx1"]

\* The logs FilterLogs can return for one block, in log-index order.
BlockLogs ==
    { <<>>, <<BuyLog>>, <<MatchedLog, SellLog>>, <<MalformedLog, BuyLog>> }

NoEvent == [OrderHash |-> "", Maker |-> 0, Taker |-> 0,
            MakerAssetId |-> 0, TakerAssetId |-> 0,
            MakerAmountFilled |-> 0, TakerAmountFilled |-> 0, Fee |-> 0]

\* UnpackIntoInterface fails on data shorter than the five words
UnpackFails(vLog) == Len(vLog.Data) < 5

\* exchangeABI.UnpackIntoInterface(event, "OrderFilled", vLog.Data) fills
\* the fields that are not indexed from Data; then OrderHash is taken from
\* Topics[1].  Maker and Taker are assigned nowhere: they stay the zero
\* address of the new OrderFilledEvent.
UnpackOrderFilled(vLog) ==
    [OrderHash         |-> IF Len(vLog.Topics) >= 2 THEN vLog.Topics[2] ELSE "",
     Maker             |-> 0,
     Taker             |-> 0,
     MakerAssetId      |-> vLog.Data[1],
     TakerAssetId      |-> vLog.Data[2],
     MakerAmountFilled |-> vLog.Data[3],
     TakerAmountFilled |-> vLog.Data[4],
     Fee               |-> vLog.Data[5]]

\* signal := &TradeSignal{}
EmptySignal ==
    [Trader |-> "", Side |-> "", MarketID |-> "", TokenID |-> Nil,
     Amount |-> Nil, Price |-> Nil, TxHash |-> ""]

\* no TradeSignal was built, or the TradeSignal built
NoSignal == <<>>
Built(signal) == <<signal>>

\* MakerSignal with the buying maker given its own leg of the fill
MakerSignalOwnLeg(event) ==
    IF event.MakerAssetId = 0
    THEN [EmptySignal EXCEPT !.Trader = Hex(event.Maker),
                             !.Side = "BUY",
                             !.TokenID = Some(event.MakerAssetId),
                             !.Amount = Some(event.MakerAmountFilled)]
    ELSE [EmptySignal EXCEPT !.Trader = Hex(event.Maker),
                             !.Side = "SELL",
                             !.TokenID = Some(event.MakerAssetId),
                             !.Amount = Some(event.MakerAmountFilled)]

\* MakerSignal with the selling maker given the taker's leg of the fill
MakerSignalSellCounterLeg(event) ==
    IF event.MakerAssetId = 0
    THEN [EmptySignal EXCEPT !.Trader = Hex(event.Maker),
                             !.Side = "BUY",
                             !.TokenID = Some(event.TakerAssetId),
                             !.Amount = Some(event.TakerAmountFilled)]
    ELSE [EmptySignal EXCEPT !.Trader = Hex(event.Maker),
                             !.Side = "SELL",
                             !.TokenID = Some(event.TakerAssetId),
                             !.Amount = Some(event.TakerAmountFilled)]

\* the maker is the tracked party (lines 357-366)
MakerSignal(event) ==
    IF event.MakerAssetId = 0
    THEN [EmptySignal EXCEPT !.Trader = Hex(event.Maker),
                             !.Side = "BUY",
                             !.TokenID = Some(event.TakerAssetId),
                             !.Amount = Some(event.TakerAmountFilled)]
    ELSE [EmptySignal EXCEPT !.Trader = Hex(event.Maker),
                             !.Side = "SELL",
                             !.TokenID = Some(event.MakerAssetId),
                             !.Amount = Some(event.MakerAmountFilled)]

\* TakerSignal with the taker's direction read from the maker's asset id
TakerSignalMakerAsset(event) ==
    IF event.MakerAssetId = 0
    THEN [EmptySignal EXCEPT !.Trader = Hex(event.Taker),
                             !.Side = "BUY",
                             !.TokenID = Some(event.MakerAssetId),
                             !.Amount = Some(event.MakerAmountFilled)]
    ELSE [EmptySignal EXCEPT !.Trader = Hex(event.Taker),
                             !.Side = "SELL",
                             !.TokenID = Some(event.TakerAssetId),
                             !.Amount = Some(event.TakerAmountFilled)]

\* the taker is the tracked party (lines 368-377)
TakerSignal(event) ==
    IF event.TakerAssetId = 0
    THEN [EmptySignal EXCEPT !.Trader = Hex(event.Taker),
                             !.Side = "BUY",
                             !.TokenID = Some(event.MakerAssetId),
                             !.Amount = Some(event.MakerAmountFilled)]
    ELSE [EmptySignal EXCEPT !.Trader = Hex(event.Taker),
                             !.Side = "SELL",
                             !.TokenID = Some(event.TakerAssetId),
                             !.Amount = Some(event.TakerAmountFilled)]

\* SignalParty with the taker's branch tried first
SignalPartyTakerFirst(event, makerIsTop, takerIsTop) ==
    IF takerIsTop THEN TakerSignal(event)
    ELSE IF makerIsTop THEN MakerSignal(event)
    ELSE EmptySignal

\* if makerIsTop { ... } else if takerIsTop { ... } (lines 356-378)
SignalParty(event, makerIsTop, takerIsTop) ==
    IF makerIsTop THEN MakerSignal(event)
    ELSE IF takerIsTop THEN TakerSignal(event)
    ELSE EmptySignal

\* extractTradeSignal: the party's fields, then the price (lines 380-386);
\* big.Int arithmetic, so nothing overflows
extractTradeSignal(event, makerIsTop, takerIsTop) ==
    LET signal == SignalParty(event, makerIsTop, takerIsTop) IN
    IF signal.Side = "BUY" /\ event.MakerAmountFilled > 0
    THEN [signal EXCEPT !.Price =
             Some((event.TakerAmountFilled * 1000000) \div event.MakerAmountFilled)]
    ELSE signal

\* NotTopTraderActivity with both negations dropped
NotTopTraderActivityNegationsDropped(makerIsTop, takerIsTop) ==
    makerIsTop /\ takerIsTop

\* if !makerIsTop && !takerIsTop { return nil } (lines 314-317)
NotTopTraderActivity(makerIsTop, takerIsTop) == ~makerIsTop /\ ~takerIsTop

(***************************************************************************)
(* The listener's goroutines.                                              *)
(***************************************************************************)
Running == ~crashed

WatcherIdle ==
    [pc |-> "Start", sub |-> FALSE, blocks |-> 0, logs |-> <<>>, i |-> 0,
     decoded |-> FALSE, event |-> NoEvent, makerIsTop |-> FALSE,
     takerIsTop |-> FALSE, signal |-> NoSignal, ret |-> "none",
     err |-> "nil", filterErrs |-> 0, number |-> 0, missed |-> {}]

\* Start: go updateTopTraders, SubscribeNewHead, go pollHistoricalBlocks
\* (lines 191-206)
Start ==
    /\ Running
    /\ w.pc = "Start"
    /\ upd' = [upd EXCEPT !.pc = "select"]
    /\ \/ /\ ~ctxDone
          /\ w' = [w EXCEPT !.pc = "select", !.sub = TRUE]
          /\ poll' = "select"
       \/ /\ w' = [w EXCEPT !.pc = "returned",
                            !.err = "failed to subscribe to new heads"]
          /\ poll' = poll
    /\ UNCHANGED <<ledgerVars, calls, leaderboard, topTraders, prevTopTraders,
                   ctxDone, crashed, extractVars>>

\* main: cancel()
Cancel ==
    /\ Running
    /\ ~ctxDone
    /\ ctxDone' = TRUE
    /\ UNCHANGED <<ledgerVars, calls, leaderboard, topTraders, prevTopTraders,
                   upd, w, poll, crashed, extractVars>>

\* case <-ctx.Done(): return ctx.Err(), with the deferred sub.Unsubscribe()
StartCtxDone ==
    /\ Running
    /\ w.pc = "select"
    /\ ctxDone
    /\ w' = [w EXCEPT !.pc = "returned", !.sub = FALSE,
                      !.err = "context canceled"]
    /\ UNCHANGED <<ledgerVars, calls, leaderboard, topTraders, prevTopTraders,
                   upd, poll, ctxDone, crashed, extractVars>>

\* case err := <-sub.Err(): logged and returned, with the deferred
\* sub.Unsubscribe() (lines 212-214)
StartSubErr ==
    /\ Running
    /\ w.pc = "select"
    /\ w' = [w EXCEPT !.pc = "returned", !.sub = FALSE,
                      !.err = "subscription error"]
    /\ UNCHANGED <<ledgerVars, calls, leaderboard, topTraders, prevTopTraders,
                   upd, poll, ctxDone, crashed, extractVars>>

\* A header arrives: its number is the next one of the chain, or the one
\* after it when the subscription did not deliver the header in between
\* (gap = 1); missed keeps the numbers of the blocks never given to
\* processBlock.
HeaderGaps == {0, 1}

Header(ww, gap) ==
    [ww EXCEPT !.blocks = @ + 1,
               !.number = @ + 1 + gap,
               !.missed = IF gap = 1 THEN @ \cup {ww.number + 1} ELSE @]

\* The position after log i of the block has been handled with error err:
\* an error ends the loop (break), and processBlock returns nil.
AfterLog(ww, err) ==
    IF err # "nil" \/ ww.i >= Len(ww.logs)
    THEN [ww EXCEPT !.pc = "select"]
    ELSE [ww EXCEPT !.pc = "range", !.i = ww.i + 1]

\* ProcessBlockFrom with a FilterLogs error returned by Start
ProcessBlockFromAbortsOnError(gaps) ==
    /\ Running
    /\ w.pc = "select"
    /\ w.blocks < MaxBlocks
    /\ \E gap \in gaps :
        LET h == Header(w, gap) IN
        \/ w' = [h EXCEPT !.logs = <<>>, !.i = 0,
                          !.err = "failed to filter logs",
                          !.filterErrs = @ + 1,
                          !.pc = "returned", !.sub = FALSE]
        \/ /\ ~ctxDone
           /\ \E logs \in BlockLogs :
                 w' = IF logs = <<>>
                      THEN [h EXCEPT !.logs = logs, !.i = 0, !.err = "nil"]
                      ELSE [h EXCEPT !.logs = logs, !.i = 1, !.err = "nil",
                                     !.pc = "range"]
    /\ UNCHANGED <<ledgerVars, calls, leaderboard, topTraders, prevTopTraders,
                   upd, poll, ctxDone, crashed, extractVars>>

\* case header := <-headers: processBlock(ctx, header.Number) up to the loop
\* over the logs (lines 215-219, 249-267), for a header that follows the
\* last one with one of the gaps.  A FilterLogs error is returned by
\* processBlock and logged by Start, which goes on with its loop;
\* filterErrs counts them.
ProcessBlockFrom(gaps) ==
    /\ Running
    /\ w.pc = "select"
    /\ w.blocks < MaxBlocks
    /\ \E gap \in gaps :
        LET h == Header(w, gap) IN
        \/ w' = [h EXCEPT !.logs = <<>>, !.i = 0,
                          !.err = "failed to filter logs",
                          !.filterErrs = @ + 1]
        \/ /\ ~ctxDone
           /\ \E logs \in BlockLogs :
                 w' = IF logs = <<>>
                      THEN [h EXCEPT !.logs = logs, !.i = 0, !.err = "nil"]
                      ELSE [h EXCEPT !.logs = logs, !.i = 1, !.err = "nil",
                                     !.pc = "range"]
    /\ UNCHANGED <<ledgerVars, calls, leaderboard, topTraders, prevTopTraders,
                   upd, poll, ctxDone, crashed, extractVars>>

\* the subscription delivers the header of every block
ProcessBlock == ProcessBlockFrom({0})

\* the subscription may have dropped the header before the one it delivers
ProcessBlockMissedHeaders == ProcessBlockFrom(HeaderGaps)

\* processLog on an OrderFilled log: processOrderFilled up to the reads of
\* the map (lines 279-308)
ProcessOrderFilledUnpack ==
    /\ Running
    /\ w.pc = "range"
    /\ w.logs[w.i].Topics[1] = OrderFilledSig
    /\ LET vLog == w.logs[w.i]
           fresh == [w EXCEPT !.decoded = FALSE, !.event = NoEvent,
                              !.makerIsTop = FALSE, !.takerIsTop = FALSE,
                              !.signal = NoSignal, !.ret = "none"]
       IN  IF UnpackFails(vLog)
           THEN w' = AfterLog([fresh EXCEPT !.ret = "failed to unpack OrderFilled"],
                              "failed to unpack OrderFilled")
           ELSE w' = [fresh EXCEPT !.decoded = TRUE,
                                   !.event = UnpackOrderFilled(vLog),
                                   !.pc = "readMaker"]
    /\ UNCHANGED <<ledgerVars, calls, leaderboard, topTraders, prevTopTraders,
                   upd, poll, ctxDone, crashed, extractVars>>

\* ProcessOrdersMatched returning an error to processBlock
ProcessOrdersMatchedFails ==
    /\ Running
    /\ w.pc = "range"
    /\ w.logs[w.i].Topics[1] = OrdersMatchedSig
    /\ w' = AfterLog([w EXCEPT !.decoded = FALSE, !.event = NoEvent,
                               !.makerIsTop = FALSE, !.takerIsTop = FALSE,
                               !.signal = NoSignal,
                               !.ret = "failed to process OrdersMatched"],
                     "failed to process OrdersMatched")
    /\ UNCHANGED <<ledgerVars, calls, leaderboard, topTraders, prevTopTraders,
                   upd, poll, ctxDone, crashed, extractVars>>

\* processLog on an OrdersMatched log: processOrdersMatched logs the
\* transaction and returns nil (lines 286-289, 334-338)
ProcessOrdersMatched ==
    /\ Running
    /\ w.pc = "range"
    /\ w.logs[w.i].Topics[1] = OrdersMatchedSig
    /\ w' = AfterLog([w EXCEPT !.decoded = FALSE, !.event = NoEvent,
                               !.makerIsTop = FALSE, !.takerIsTop = FALSE,
                               !.signal = NoSignal, !.ret = "nil"], "nil")
    /\ UNCHANGED <<ledgerVars, calls, leaderboard, topTraders, prevTopTraders,
                   upd, poll, ctxDone, crashed, extractVars>>

\* What l.topTraders[key] can return.  The map is read with no lock while
\* updateTopTraders writes it: a read that overlaps an assignment of the map
\* sees the map before or after it.
MapRead(key) ==
    IF upd.pc = "mapassign"
    THEN {key \in topTraders,
          key \in topTraders \cup {ToLower(upd.traders[upd.i])}}
    ELSE {key \in topTraders}

\* makerIsTop := l.topTraders[strings.ToLower(maker)] (lines 307, 311)
ReadMakerIsTop ==
    /\ Running
    /\ w.pc = "readMaker"
    /\ \E b \in MapRead(ToLower(Hex(w.event.Maker))) :
          w' = [w EXCEPT !.makerIsTop = b, !.pc = "readTaker"]
    /\ UNCHANGED <<ledgerVars, calls, leaderboard, topTraders, prevTopTraders,
                   upd, poll, ctxDone, crashed, extractVars>>

\* takerIsTop := l.topTraders[strings.ToLower(taker)] (lines 308, 312)
ReadTakerIsTop ==
    /\ Running
    /\ w.pc = "readTaker"
    /\ \E b \in MapRead(ToLower(Hex(w.event.Taker))) :
          w' = [w EXCEPT !.takerIsTop = b, !.pc = "check"]
    /\ UNCHANGED <<ledgerVars, calls, leaderboard, topTraders, prevTopTraders,
                   upd, poll, ctxDone, crashed, extractVars>>

\* The runtime finds the map read while it is written and ends the process:
\* "fatal error: concurrent map read and map write".
ConcurrentMapReadAndWrite ==
    /\ Running
    /\ w.pc \in {"readMaker", "readTaker"}
    /\ upd.pc = "mapassign"
    /\ crashed' = TRUE
    /\ UNCHANGED <<ledgerVars, calls, leaderboard, topTraders, prevTopTraders,
                   upd, w, poll, ctxDone, extractVars>>

\* The rest of processOrderFilled: the early return, or extractTradeSignal
\* and storeTradeSignal, which logs the signal and returns nil
\* (lines 314-332, 391-397)
ProcessOrderFilledSignal ==
    /\ Running
    /\ w.pc = "check"
    /\ IF NotTopTraderActivity(w.makerIsTop, w.takerIsTop)
       THEN w' = AfterLog([w EXCEPT !.ret = "nil"], "nil")
       ELSE w' = AfterLog([w EXCEPT
                    !.signal = Built(extractTradeSignal(w.event, w.makerIsTop,
                                                        w.takerIsTop)),
                    !.ret = "nil"], "nil")
    /\ UNCHANGED <<ledgerVars, calls, leaderboard, topTraders, prevTopTraders,
                   upd, poll, ctxDone, crashed, extractVars>>

\* UpdateTopTradersTick without the make: the map in use is filled in place
UpdateTopTradersTickInPlace ==
    /\ Running
    /\ upd.pc = "select"
    /\ \/ /\ upd' = [upd EXCEPT !.err = "failed to get top traders"]
          /\ UNCHANGED <<topTraders, prevTopTraders>>
       \/ \E traders \in GetTopTraders(leaderboard, TopTradersCount) :
             /\ upd' = [pc |-> "range", traders |-> traders, i |-> 1,
                        err |-> "nil"]
             /\ prevTopTraders' = topTraders
             /\ topTraders' = topTraders
    /\ UNCHANGED <<ledgerVars, calls, leaderboard, w, poll, ctxDone, crashed,
                   extractVars>>

\* UpdateTopTradersTick emptying the map when GetTopTraders fails
UpdateTopTradersTickClearsOnError ==
    /\ Running
    /\ upd.pc = "select"
    /\ \/ /\ upd' = [upd EXCEPT !.err = "failed to get top traders"]
          /\ topTraders' = {}
          /\ UNCHANGED prevTopTraders
       \/ \E traders \in GetTopTraders(leaderboard, TopTradersCount) :
             /\ upd' = [pc |-> "range", traders |-> traders, i |-> 1,
                        err |-> "nil"]
             /\ prevTopTraders' = topTraders
             /\ topTraders' = {}
    /\ UNCHANGED <<ledgerVars, calls, leaderboard, w, poll, ctxDone, crashed,
                   extractVars>>

\* updateTopTraders, case <-ticker.C: GetTopTraders; on an error, kept in
\* err, the map is left alone (continue), else
\* l.topTraders = make(map[string]bool)
\* (lines 231-239)
UpdateTopTradersTick ==
    /\ Running
    /\ upd.pc = "select"
    /\ \/ /\ upd' = [upd EXCEPT !.err = "failed to get top traders"]
          /\ UNCHANGED <<topTraders, prevTopTraders>>
       \/ \E traders \in GetTopTraders(leaderboard, TopTradersCount) :
             /\ upd' = [pc |-> "range", traders |-> traders, i |-> 1,
                        err |-> "nil"]
             /\ prevTopTraders' = topTraders
             /\ topTraders' = {}
    /\ UNCHANGED <<ledgerVars, calls, leaderboard, w, poll, ctxDone, crashed,
                   extractVars>>

\* l.topTraders[strings.ToLower(trader)] = true begins (line 241)
UpdateTopTradersAssign ==
    /\ Running
    /\ upd.pc = "range"
    /\ upd.i <= Len(upd.traders)
    /\ upd' = [upd EXCEPT !.pc = "mapassign"]
    /\ UNCHANGED <<ledgerVars, calls, leaderboard, topTraders, prevTopTraders,
                   w, poll, ctxDone, crashed, extractVars>>

\* ... and ends: the key is in the map
UpdateTopTradersAssigned ==
    /\ Running
    /\ upd.pc = "mapassign"
    /\ topTraders' = topTraders \cup {ToLower(upd.traders[upd.i])}
    /\ upd' = [upd EXCEPT !.pc = "range", !.i = @ + 1]
    /\ UNCHANGED <<ledgerVars, calls, leaderboard, prevTopTraders, w, poll,
                   ctxDone, crashed, extractVars>>

\* the loop is over: log.Printf("Updated top traders list ...") (line 244)
UpdateTopTradersUpdated ==
    /\ Running
    /\ upd.pc = "range"
    /\ upd.i > Len(upd.traders)
    /\ upd' = [upd EXCEPT !.pc = "select"]
    /\ UNCHANGED <<ledgerVars, calls, leaderboard, topTraders, prevTopTraders,
                   w, poll, ctxDone, crashed, extractVars>>

\* updateTopTraders, case <-ctx.Done(): return (lines 229-230)
UpdateTopTradersCtxDone ==
    /\ Running
    /\ upd.pc = "select"
    /\ ctxDone
    /\ upd' = [upd EXCEPT !.pc = "returned"]
    /\ UNCHANGED <<ledgerVars, calls, leaderboard, topTraders, prevTopTraders,
                   w, poll, ctxDone, crashed, extractVars>>

\* pollHistoricalBlocks, case <-ticker.C: nothing is done (lines 408-409)
PollHistoricalBlocksTick ==
    /\ Running
    /\ poll = "select"
    /\ UNCHANGED vars

\* pollHistoricalBlocks with no case for ctx.Done(): it stays in its loop
PollHistoricalBlocksIgnoresCtx ==
    /\ Running
    /\ poll = "select"
    /\ ctxDone
    /\ UNCHANGED vars

\* pollHistoricalBlocks, case <-ctx.Done(): return (lines 406-407)
PollHistoricalBlocksCtxDone ==
    /\ Running
    /\ poll = "select"
    /\ ctxDone
    /\ poll' = "returned"
    /\ UNCHANGED <<ledgerVars, calls, leaderboard, topTraders, prevTopTraders,
                   upd, w, ctxDone, crashed, extractVars>>

\* ingestion: updateLeaderboardFromAPI upserts the fetched entries, which
\* adds rows to top_traders and changes their order
UpdateLeaderboardFromAPI ==
    /\ Running
    /\ \E board \in Leaderboards :
          /\ Range(leaderboard) \subseteq Range(board)
          /\ board # leaderboard
          /\ leaderboard' = board
    /\ UNCHANGED <<ledgerVars, calls, topTraders, prevTopTraders, upd, w, poll,
                   ctxDone, crashed, extractVars>>

(***************************************************************************)
(* extractTradeSignal on any event: the arguments it can be called with.   *)
(***************************************************************************)
AssetIds == {0, 77, 88}
MakerAmounts == {0, 20, 10000000}
TakerAmounts == {0, 20, 1500}

Events ==
    [OrderHash : {"0xorder1"}, Maker : {1}, Taker : {2},
     MakerAssetId : AssetIds, TakerAssetId : AssetIds,
     MakerAmountFilled : MakerAmounts, TakerAmountFilled : TakerAmounts,
     Fee : {0}]

NoInput == <<>>

\* processOrderFilled calls extractTradeSignal with one flag true at least
ExtractInputs ==
    {<<in>> : in \in
        {x \in [event : Events, makerIsTop : BOOLEAN, takerIsTop : BOOLEAN] :
            ~NotTopTraderActivity(x.makerIsTop, x.takerIsTop)}}

ExtractTradeSignal ==
    /\ xin # NoInput
    /\ xout = NoSignal
    /\ xout' = Built(extractTradeSignal(xin[1].event, xin[1].makerIsTop,
                                        xin[1].takerIsTop))
    /\ UNCHANGED <<ledgerVars, calls, listenerVars, xin>>

(***************************************************************************)
(* The specifications.                                                     *)
(***************************************************************************)
InitProgram ==
    /\ positions = <<>>
    /\ trades = <<>>
    /\ calls = [c \in CallIds |-> IdleCall]
    /\ leaderboard = <<>>
    /\ topTraders = {}
    /\ prevTopTraders = {}
    /\ upd = [pc |-> "notStarted", traders |-> <<>>, i |-> 1, err |-> "nil"]
    /\ w = WatcherIdle
    /\ poll = "notStarted"
    /\ ctxDone = FALSE
    /\ crashed = FALSE
    /\ xout = NoSignal

Init ==
    /\ InitProgram
    /\ xin = NoInput

Next ==
    \E c \in CallIds :
        \/ ExecuteTrade(c)
        \/ ExecuteTradeCreatePosition(c)
        \/ ExecuteTradeCreateTrade(c)
        \/ ExecuteTradeSubmit(c)
        \/ ExecuteTradeMarkFailed(c)
        \/ ExecuteTradeMarkConfirmed(c)

Spec == Init /\ [][Next]_vars

NextLedger ==
    \/ LedgerCreatePosition
    \/ LedgerCreateTrade
    \/ LedgerUpdateTradeStatus

SpecLedger == Init /\ [][NextLedger]_vars

NextListener ==
    \/ Start
    \/ Cancel
    \/ StartCtxDone
    \/ StartSubErr
    \/ ProcessBlock
    \/ ProcessOrderFilledUnpack
    \/ ProcessOrdersMatched
    \/ ReadMakerIsTop
    \/ ReadTakerIsTop
    \/ ConcurrentMapReadAndWrite
    \/ ProcessOrderFilledSignal
    \/ UpdateTopTradersTick
    \/ UpdateTopTradersAssign
    \/ UpdateTopTradersAssigned
    \/ UpdateTopTradersUpdated
    \/ UpdateTopTradersCtxDone
    \/ PollHistoricalBlocksTick
    \/ PollHistoricalBlocksCtxDone
    \/ UpdateLeaderboardFromAPI

SpecListener == Init /\ [][NextListener]_vars

\* The steps a goroutine takes by itself once it is given a block or a tick:
\* at most one of them is enabled at a time, by the goroutine's position.
ProcessLogStep ==
    \/ ProcessOrderFilledUnpack
    \/ ProcessOrdersMatched
    \/ ReadMakerIsTop
    \/ ReadTakerIsTop
    \/ ProcessOrderFilledSignal

UpdateTopTradersStep ==
    \/ UpdateTopTradersAssign
    \/ UpdateTopTradersAssigned
    \/ UpdateTopTradersUpdated

\* The scheduling of the listener's goroutines.  A goroutine that can take
\* its next step takes it (WF).  A select that is reached again and again
\* with ctx.Done() ready takes that case at last (SF): Go chooses among the
\* ready cases of a select at random.  Nothing is assumed of what the
\* goroutines wait for: headers, subscription errors, ticks, the cancel,
\* the call of Start, the writes of the ingestion.
ListenerFairness ==
    /\ SF_vars(StartCtxDone)
    /\ SF_vars(UpdateTopTradersCtxDone)
    /\ SF_vars(PollHistoricalBlocksCtxDone)
    /\ WF_vars(ProcessLogStep)
    /\ WF_vars(UpdateTopTradersStep)

\* The listener started on a leaderboard the ingestion has filled and then
\* leaves alone: the shutdown does not depend on the writes of the ingestion.
InitLoaded ==
    /\ positions = <<>>
    /\ trades = <<>>
    /\ calls = [c \in CallIds |-> IdleCall]
    /\ leaderboard = <<"0x00", "0xAa">>
    /\ topTraders = {}
    /\ prevTopTraders = {}
    /\ upd = [pc |-> "notStarted", traders |-> <<>>, i |-> 1, err |-> "nil"]
    /\ w = WatcherIdle
    /\ poll = "notStarted"
    /\ ctxDone = FALSE
    /\ crashed = FALSE
    /\ xout = NoSignal
    /\ xin = NoInput

NextGoroutines ==
    \/ Start
    \/ Cancel
    \/ StartCtxDone
    \/ StartSubErr
    \/ ProcessBlock
    \/ ProcessLogStep
    \/ ConcurrentMapReadAndWrite
    \/ UpdateTopTradersTick
    \/ UpdateTopTradersStep
    \/ UpdateTopTradersCtxDone
    \/ PollHistoricalBlocksTick
    \/ PollHistoricalBlocksCtxDone

SpecListenerFair == InitLoaded /\ [][NextGoroutines]_vars /\ ListenerFairness

InitExtract ==
    /\ InitProgram
    /\ xin \in ExtractInputs

SpecExtract == InitExtract /\ [][ExtractTradeSignal]_vars

(***************************************************************************)
(* Claims about the execution engine and the ledger.                       *)
(***************************************************************************)
\* The calls of ExecuteTrade, delivered the fill with key k, that inserted a
\* Trade row.
TradesForKey(k) == {c \in CallIds : calls[c].key = k /\ calls[c].trade # 0}

\* C1: at most one Trade row exists per idempotency key (transaction hash,
\* order hash), however often the fill is delivered to ExecuteTrade: a second
\* delivery of the same fill creates no Trade.
C1_OneTradePerKey ==
    \A k \in Keys : Cardinality(TradesForKey(k)) <= 1

\* C2: the Position and the Trade of a call persist together or not at all:
\* once no call stands between its two inserts, every Position has a Trade
\* that refers to it and every Trade refers to a Position of the table.
C2_PositionAndTradeAtomic ==
    (\A c \in CallIds : calls[c].pc # "CreateTrade") =>
        /\ \A i \in DOMAIN positions :
              \E j \in DOMAIN trades : trades[j].PositionID = positions[i].ID
        /\ \A j \in DOMAIN trades :
              \E i \in DOMAIN positions : positions[i].ID = trades[j].PositionID

\* C3: a Trade row is created pending, and a step of the ledger changes the
\* status of a row only from pending to confirmed or from pending to failed.
C3_StatusOnlyLeavesPending ==
    [][ /\ \A i \in DOMAIN trades' :
              i \notin DOMAIN trades => trades'[i].Status = "pending"
        /\ \A i \in DOMAIN trades :
              trades'[i].Status # trades[i].Status =>
                  /\ trades[i].Status = "pending"
                  /\ trades'[i].Status \in {"confirmed", "failed"} ]_vars

\* C4: UpdateTradeStatus on a Trade that is already confirmed or failed
\* leaves its stored status and transaction hash as they were.
C4_TerminalTradeUnchanged ==
    [][ \A i \in DOMAIN trades :
            trades[i].Status \in {"confirmed", "failed"} =>
                /\ trades'[i].Status = trades[i].Status
                /\ trades'[i].TxHash = trades[i].TxHash ]_vars

\* C5: a call of ExecuteTrade that reached the submission has submitted
\* exactly once when it returns; if the submission succeeded (nil returned)
\* its Trade is confirmed with the returned hash, and if it failed its Trade
\* is failed with no transaction hash.
C5_SubmitOnceAndResolve ==
    \A c \in CallIds :
        (calls[c].pc = "returned" /\ calls[c].submits > 0) =>
            /\ calls[c].submits = 1
            /\ calls[c].ret = "nil" =>
                  /\ trades[calls[c].trade].Status = "confirmed"
                  /\ trades[calls[c].trade].TxHash = calls[c].txHash
            /\ calls[c].ret = "failed to submit trade" =>
                  /\ trades[calls[c].trade].Status = "failed"
                  /\ trades[calls[c].trade].TxHash \in {"", Null}

(***************************************************************************)
(* Claims about the listener.                                              *)
(***************************************************************************)
\* The tracked set the refresh in progress, or the last one, was given.
NewTopTraders == {ToLower(upd.traders[i]) : i \in DOMAIN upd.traders}

\* C6: when processOrderFilled reads the map, the map holds the whole old
\* generation or the whole new one, never an empty or partly built set.
C6_ReadSeesOldOrNewSet ==
    (Running /\ w.pc \in {"readMaker", "readTaker"}) =>
        topTraders \in {prevTopTraders, NewTopTraders}

\* C7: a refresh whose GetTopTraders returns the empty list leaves a
\* nonempty tracked set as it is.
C7_EmptyRefreshIsNoOp ==
    [][ (upd.pc = "select" /\ upd'.pc = "range" /\ upd'.traders = <<>>
            /\ topTraders # {})
        => topTraders' = topTraders ]_vars

\* processOrderFilled has decoded a fill and has returned
FillProcessed ==
    w.decoded /\ w.pc \notin {"readMaker", "readTaker", "check"}

\* C8: a decoded fill whose maker and taker were both found untracked gives
\* no TradeSignal, and processOrderFilled returns nil.
C8_NoSignalWhenNeitherTracked ==
    (FillProcessed /\ ~w.makerIsTop /\ ~w.takerIsTop) =>
        (w.signal = NoSignal /\ w.ret = "nil")

C8_Witness ==
    /\ FillProcessed
    /\ ~w.makerIsTop /\ ~w.takerIsTop
    /\ topTraders # {}
    /\ ToLower(Hex(w.event.Maker)) \notin topTraders
    /\ ToLower(Hex(w.event.Taker)) \notin topTraders
    /\ w.signal = NoSignal
    /\ w.ret = "nil"

\* C9: maker tracked and maker asset id 0 (taker tracked or not): the signal
\* has trader = maker, side BUY, token id = taker asset id and
\* amount = taker amount filled.
C9_MakerBuys ==
    (xout # NoSignal /\ xin[1].makerIsTop /\ xin[1].event.MakerAssetId = 0) =>
        /\ xout[1].Trader = Hex(xin[1].event.Maker)
        /\ xout[1].Side = "BUY"
        /\ xout[1].TokenID = Some(xin[1].event.TakerAssetId)
        /\ xout[1].Amount = Some(xin[1].event.TakerAmountFilled)

\* the scenario: taker asset id 77, maker amount 10,000,000, taker amount 20
C9_Witness ==
    /\ xout # NoSignal
    /\ xin[1].makerIsTop /\ xin[1].takerIsTop
    /\ xin[1].event.MakerAssetId = 0
    /\ xin[1].event.TakerAssetId = 77
    /\ xin[1].event.MakerAmountFilled = 10000000
    /\ xin[1].event.TakerAmountFilled = 20
    /\ xout[1] = [Trader |-> "0xAa", Side |-> "BUY", MarketID |-> "",
                  TokenID |-> <<77>>, Amount |-> <<20>>, Price |-> <<2>>,
                  TxHash |-> ""]

\* C10: taker tracked, maker not tracked and taker asset id 0: the signal has
\* trader = taker, side BUY, token id = maker asset id and
\* amount = maker amount filled.
C10_TakerBuys ==
    (xout # NoSignal /\ xin[1].takerIsTop /\ ~xin[1].makerIsTop
        /\ xin[1].event.TakerAssetId = 0) =>
        /\ xout[1].Trader = Hex(xin[1].event.Taker)
        /\ xout[1].Side = "BUY"
        /\ xout[1].TokenID = Some(xin[1].event.MakerAssetId)
        /\ xout[1].Amount = Some(xin[1].event.MakerAmountFilled)

C10_Witness ==
    /\ xout # NoSignal
    /\ xin[1].takerIsTop /\ ~xin[1].makerIsTop
    /\ xin[1].event.TakerAssetId = 0
    /\ xin[1].event.MakerAssetId = 77
    /\ xin[1].event.MakerAmountFilled = 20
    /\ xout[1].Trader = "0xBb"
    /\ xout[1].Side = "BUY"
    /\ xout[1].TokenID = <<77>>
    /\ xout[1].Amount = <<20>>

(***************************************************************************)
(* Claims about extractTradeSignal, continued.                             *)
(***************************************************************************)
\* C11: when the selected tracked party (the maker if tracked, else the
\* taker) has a nonzero own asset id, the signal has side SELL, token id =
\* that party's own asset id and amount = that party's own amount filled.
C11_SelectedPartySells ==
    xout # NoSignal =>
        LET in == xin[1]
            ownAssetId == IF in.makerIsTop THEN in.event.MakerAssetId
                                           ELSE in.event.TakerAssetId
            ownAmount == IF in.makerIsTop THEN in.event.MakerAmountFilled
                                          ELSE in.event.TakerAmountFilled
        IN  ownAssetId # 0 =>
                /\ xout[1].Side = "SELL"
                /\ xout[1].TokenID = Some(ownAssetId)
                /\ xout[1].Amount = Some(ownAmount)

\* maker tracked with maker asset id 77 and maker amount 20 against a taker
\* leg of asset id 88 and amount 1500
C11_Witness ==
    /\ xout # NoSignal
    /\ xin[1].makerIsTop /\ ~xin[1].takerIsTop
    /\ xin[1].event.MakerAssetId = 77
    /\ xin[1].event.TakerAssetId = 88
    /\ xin[1].event.MakerAmountFilled = 20
    /\ xin[1].event.TakerAmountFilled = 1500
    /\ xout[1].Trader = "0xAa"
    /\ xout[1].Side = "SELL"
    /\ xout[1].TokenID = <<77>>
    /\ xout[1].Amount = <<20>>

\* C12: when maker and taker are both tracked, one signal is built and it is
\* the maker's: its trader is the maker, and trader, side, token id and
\* amount are those built for the same event with the taker untracked.
C12_MakerHasPriority ==
    (xout # NoSignal /\ xin[1].makerIsTop /\ xin[1].takerIsTop) =>
        LET alone == extractTradeSignal(xin[1].event, TRUE, FALSE) IN
        /\ Len(xout) = 1
        /\ xout[1].Trader = Hex(xin[1].event.Maker)
        /\ xout[1].Trader = alone.Trader
        /\ xout[1].Side = alone.Side
        /\ xout[1].TokenID = alone.TokenID
        /\ xout[1].Amount = alone.Amount

\* both tracked, and the two parties would give different signals: the maker
\* sells asset 77, the taker would buy it
C12_Witness ==
    /\ xout # NoSignal
    /\ xin[1].makerIsTop /\ xin[1].takerIsTop
    /\ xin[1].event.MakerAssetId = 77
    /\ xin[1].event.TakerAssetId = 0
    /\ xin[1].event.MakerAmountFilled = 20
    /\ xin[1].event.TakerAmountFilled = 1500
    /\ xout[1].Trader = "0xAa"
    /\ xout[1].Side = "SELL"
    /\ xout[1].TokenID = <<77>>
    /\ xout[1].Amount = <<20>>

\* The amount filled on the tracked party's own side of the fill, and on the
\* other side: the party is the maker if tracked, else the taker.
OwnAmountFilled(in) ==
    IF in.makerIsTop THEN in.event.MakerAmountFilled
                     ELSE in.event.TakerAmountFilled

CounterAmountFilled(in) ==
    IF in.makerIsTop THEN in.event.TakerAmountFilled
                     ELSE in.event.MakerAmountFilled

\* amount * 1000000 is within the integers of the model checker
ScaledFits(amount) == amount <= 2000

\* C13: a BUY signal whose tracked party's own amount filled is positive has
\* price = (counter amount filled * 1000000) \div (own amount filled),
\* whether the tracked buyer is the maker or the taker.
C13_BuyPriceIsCounterOverOwn ==
    (xout # NoSignal /\ xout[1].Side = "BUY"
        /\ OwnAmountFilled(xin[1]) > 0
        /\ ScaledFits(CounterAmountFilled(xin[1]))) =>
        xout[1].Price =
            Some((CounterAmountFilled(xin[1]) * 1000000)
                    \div OwnAmountFilled(xin[1]))

\* C14: the price is absent on every SELL signal and on every BUY signal
\* whose tracked party's own amount filled is 0.
C14_PriceAbsent ==
    xout # NoSignal =>
        /\ xout[1].Side = "SELL" => xout[1].Price = Nil
        /\ (xout[1].Side = "BUY" /\ OwnAmountFilled(xin[1]) = 0) =>
              xout[1].Price = Nil

(***************************************************************************)
(* Claims about the listener, continued.                                   *)
(***************************************************************************)
\* C15: the decoded OrderFilled event has its order hash, maker and taker
\* from topics 1, 2 and 3 of the log (Topics[2], [3], [4] here), so the
\* addresses looked up in the tracked set are those of the topics.
C15_IndexedFieldsFromTopics ==
    (Running /\ w.pc = "readMaker") =>
        LET vLog == w.logs[w.i] IN
        /\ w.event.OrderHash = vLog.Topics[2]
        /\ w.event.Maker = vLog.Topics[3]
        /\ w.event.Taker = vLog.Topics[4]

\* processBlock has returned to Start's loop, its FilterLogs having succeeded
BlockDone == w.pc \in {"select", "returned"} /\ w.err = "nil"

\* C16: a log that fails to decode is the only log skipped: when
\* processBlock is done with a block the loop has gone through every log of
\* it, the last one included.
C16_DecodeFailureSkipsOneLog ==
    BlockDone => w.i = Len(w.logs)

\* C17: Start never returns because the subscription reported an error.
C17_StartSurvivesSubscriptionError ==
    w.pc = "returned" => w.err # "subscription error"

\* C18: when FilterLogs fails for a block no log of that block is processed
\* and Start is back at its select with the subscription alive, where the
\* next header is taken.
C18_FilterErrorDoesNotAbort ==
    w.err = "failed to filter logs" =>
        /\ w.logs = <<>> /\ w.i = 0
        /\ w.pc = "select" /\ w.sub
        /\ (Running /\ w.blocks < MaxBlocks) => ENABLED ProcessBlock

\* the query of the first block failed, and the fill of the second block
\* has been decoded and processed
C18_Witness ==
    /\ w.filterErrs = 1
    /\ w.blocks = 2
    /\ w.err = "nil"
    /\ w.logs = <<BuyLog>>
    /\ FillProcessed
    /\ w.ret = "nil"

\* No goroutine of the listener runs: Start has returned and its deferred
\* Unsubscribe has run, updateTopTraders has returned, and
\* pollHistoricalBlocks has returned or was never started (Start returns
\* before "go l.pollHistoricalBlocks" when it cannot subscribe).
AllReturned ==
    /\ w.pc = "returned" /\ ~w.sub
    /\ upd.pc = "returned"
    /\ poll \in {"returned", "notStarted"}

\* C19: once the context is cancelled and Start has been called, Start,
\* pollHistoricalBlocks and updateTopTraders all return in the end, Start
\* with its subscription released, unless the process has ended before.
C19_CancelStopsAllTasks ==
    (ctxDone /\ w.pc # "Start") ~> (AllReturned \/ crashed)

\* cancelled after a block was taken: the three goroutines have returned
C19_Witness ==
    /\ ctxDone /\ ~crashed
    /\ w.blocks >= 1
    /\ w.pc = "returned" /\ ~w.sub /\ w.err = "context canceled"
    /\ upd.pc = "returned"
    /\ poll = "returned"

\* The answer of a lookup agrees with what the last refresh loaded: the
\* refresh in progress, or the one that built the map it replaced.
AgreesWithLastRefresh(isTop, key) ==
    isTop \in {key \in NewTopTraders, key \in prevTopTraders}

\* C20: every key of the tracked set is in lower case, and a lookup of
\* processOrderFilled reports the address tracked if and only if its
\* lower-case form is that of an address loaded by the last refresh.
C20_CaseInsensitiveMembership ==
    [][ /\ \A key \in topTraders : ToLower(key) = key
        /\ (w.pc = "readMaker" /\ w'.pc = "readTaker") =>
              AgreesWithLastRefresh(w'.makerIsTop, ToLower(Hex(w.event.Maker)))
        /\ (w.pc = "readTaker" /\ w'.pc = "check") =>
              AgreesWithLastRefresh(w'.takerIsTop, ToLower(Hex(w.event.Taker)))
      ]_vars

(***************************************************************************)
(* Claims about the signal's key, the sizing and the backfill.             *)
(***************************************************************************)
\* The log the TradeSignal held by processOrderFilled was built from: the
\* loop of processBlock has moved to the next log, or has ended on this one.
SignalLog == w.logs[IF w.pc = "range" THEN w.i - 1 ELSE w.i]

\* C21: a TradeSignal built for a fill carries the transaction hash of its
\* log and the order hash of the event, the idempotency key of the fill.
C21_SignalCarriesKey ==
    (w.signal # NoSignal) =>
        /\ w.signal[1].TxHash = SignalLog.TxHash
        /\ "OrderHash" \in DOMAIN w.signal[1]

\* amount * cfg.CopyTradeMultiplier, with the multiplier 0.1 that
\* config.Load sets when none is configured
MirroredAmount(amount) == amount \div 10

\* C22: the amount booked in the Position and the Trade of a call is the
\* amount of the signal delivered to it times the copy-trade multiplier.
C22_AmountIsMirrored ==
    \A c \in CallIds :
        /\ calls[c].position # 0 =>
              positions[calls[c].position].Amount =
                  MirroredAmount(calls[c].req.Amount)
        /\ calls[c].trade # 0 =>
              trades[calls[c].trade].Amount =
                  MirroredAmount(calls[c].req.Amount)

\* The listener on a subscription that can miss headers.
NextBackfill ==
    \/ Start
    \/ Cancel
    \/ StartCtxDone
    \/ StartSubErr
    \/ ProcessBlockMissedHeaders
    \/ ProcessLogStep
    \/ ConcurrentMapReadAndWrite
    \/ UpdateTopTradersTick
    \/ UpdateTopTradersStep
    \/ UpdateTopTradersCtxDone
    \/ PollHistoricalBlocksTick
    \/ PollHistoricalBlocksCtxDone

SpecBackfill == InitLoaded /\ [][NextBackfill]_vars /\ ListenerFairness

\* C23: a block whose header the subscription missed is processed by the
\* backfill poller in the end, as long as the poller runs.
C23_MissedBlockIsBackfilled ==
    (w.missed # {}) ~> (w.missed = {} \/ poll # "select" \/ crashed)

\* C24: the step that handles an OrdersMatched log builds no TradeSignal,
\* returns nil, leaves the tracked set and the ledger as they are, and
\* hands the loop of processBlock to the next log of the block.
C24_OrdersMatchedOnlyLogged ==
    [][ (w.pc = "range" /\ w.logs[w.i].Topics[1] = OrdersMatchedSig
            /\ w' # w) =>
          /\ w'.signal = NoSignal
          /\ w'.ret = "nil"
          /\ topTraders' = topTraders
          /\ positions' = positions /\ trades' = trades
          /\ IF w.i < Len(w.logs)
             THEN w'.pc = "range" /\ w'.i = w.i + 1
             ELSE w'.pc = "select" ]_vars

\* the OrdersMatched log of a block is done and its OrderFilled log is next,
\* the tracked set not being empty
C24_Witness ==
    /\ w.logs = <<MatchedLog, SellLog>>
    /\ w.pc = "range" /\ w.i = 2
    /\ w.ret = "nil"
    /\ w.signal = NoSignal
    /\ topTraders # {}

\* updateTopTraders is between two refreshes, or has returned
RefreshDone == upd.pc \in {"select", "returned"}

\* C25: once a refresh is done the tracked set is exactly the set of the
\* lower-cased addresses GetTopTraders returned to it: it has at most
\* TopTradersCount members and keeps no address of the generation before
\* that the result does not hold.
C25_ReplacedWholesale ==
    RefreshDone =>
        /\ topTraders = NewTopTraders
        /\ Cardinality(topTraders) <= TopTradersCount
        /\ \A key \in prevTopTraders :
              key \notin NewTopTraders => key \notin topTraders

\* a refresh is done that dropped an address of the generation before
C25_Witness ==
    /\ RefreshDone
    /\ topTraders # {}
    /\ topTraders = NewTopTraders
    /\ prevTopTraders \ topTraders # {}

(***************************************************************************)
(* Claims about the execution engine, continued.                           *)
(***************************************************************************)
\* the Trade row has a transaction hash: tx_hash is neither NULL nor ""
HasTxHash(trade) == trade.TxHash # Null /\ trade.TxHash # ""

\* C26: a Trade has a transaction hash if and only if it is confirmed, and
\* the hash of a confirmed Trade is the one the submission of its call
\* returned.
C26_TxHashIffConfirmed ==
    \A i \in DOMAIN trades :
        /\ HasTxHash(trades[i]) <=> trades[i].Status = "confirmed"
        /\ trades[i].Status = "confirmed" =>
              \E c \in CallIds : /\ calls[c].trade = i
                                  /\ calls[c].submits = 1
                                  /\ trades[i].TxHash = calls[c].txHash

\* one Trade confirmed with the hash of its submission, one failed with none
C26_Witness ==
    /\ Len(trades) = 2
    /\ trades[1].Status = "confirmed" /\ trades[1].TxHash = MockTxHash
    /\ trades[2].Status = "failed" /\ trades[2].TxHash = ""

\* C27: when ExecuteTrade has returned, the Trade row it created is never
\* pending: it is confirmed with the transaction hash if nil was returned
\* and failed if the submission error was returned.
C27_ReturnedTradeIsTerminal ==
    \A c \in CallIds :
        (calls[c].pc = "returned" /\ calls[c].trade # 0) =>
            /\ trades[calls[c].trade].Status # "pending"
            /\ calls[c].ret = "nil" =>
                  /\ trades[calls[c].trade].Status = "confirmed"
                  /\ trades[calls[c].trade].TxHash = calls[c].txHash
            /\ calls[c].ret = "failed to submit trade" =>
                  trades[calls[c].trade].Status = "failed"

\* C28: a call submits only with its Position row and its Trade row in the
\* ledger, and a call that returned the error of an insert has submitted
\* nothing.
C28_SubmitAfterBothInserts ==
    \A c \in CallIds :
        /\ (calls[c].pc \in {"markConfirmed", "markFailed"}
                \/ calls[c].submits > 0) =>
              /\ calls[c].position \in DOMAIN positions
              /\ calls[c].trade \in DOMAIN trades
              /\ trades[calls[c].trade].PositionID = calls[c].position
        /\ calls[c].ret \in {"failed to create position",
                              "failed to create trade"} =>
              /\ calls[c].pc = "returned"
              /\ calls[c].submits = 0

\* one call has submitted with both rows written, the other has returned
\* the error of CreateTrade without submitting
C28_Witness ==
    /\ calls[1].submits = 1
    /\ calls[1].position = 1 /\ calls[1].trade = 1
    /\ Len(positions) = 2 /\ Len(trades) = 1
    /\ calls[2].pc = "returned"
    /\ calls[2].ret = "failed to create trade"
    /\ calls[2].submits = 0

(***************************************************************************)
(* Claims about the loading of the tracked set.                            *)
(***************************************************************************)
\* The lower-cased top TopTradersCount addresses of the ledger.
LedgerTopTraders ==
    {ToLower(leaderboard[i]) :
        i \in 1..Min(TopTradersCount, Len(leaderboard))}

\* C29: the tracked set is loaded before the first block is processed: in
\* the first block after Start, the address a fill is looked up by is found
\* tracked if and only if it is in the ledger's top-K (the ledger being the
\* same as when Start was called).
C29_LoadedBeforeFirstBlock ==
    (w.blocks = 1 /\ w.pc = "check") =>
        /\ w.makerIsTop <=> ToLower(Hex(w.event.Maker)) \in LedgerTopTraders
        /\ w.takerIsTop <=> ToLower(Hex(w.event.Taker)) \in LedgerTopTraders

\* C30: the tick on which GetTopTraders returns an error leaves the tracked
\* set and the loaded list as they were and updateTopTraders in its select,
\* where the next tick is taken.
C30_RefreshErrorKeepsSet ==
    /\ [][ (upd.err = "nil" /\ upd'.err # "nil") =>
              /\ topTraders' = topTraders
              /\ upd'.traders = upd.traders
              /\ upd.pc = "select" /\ upd'.pc = "select" ]_vars
    /\ [](upd.err # "nil" =>
              /\ upd.pc \in {"select", "returned"}
              /\ upd.pc = "returned" => ctxDone
              /\ (upd.pc = "select" /\ Running) =>
                    ENABLED UpdateTopTradersTick)

\* GetTopTraders has failed on a tick, the tracked set holding the
\* addresses of the refresh before
C30_Witness ==
    /\ upd.err # "nil"
    /\ upd.pc = "select"
    /\ ~ctxDone /\ Running
    /\ topTraders # {}
    /\ topTraders = NewTopTraders

(***************************************************************************)
(* Claims about the goroutines Start leaves behind.                        *)
(***************************************************************************)
\* Start has returned an error of the subscription: SubscribeNewHead failed,
\* or the subscription reported an error
StartFailed ==
    /\ w.pc = "returned"
    /\ w.err \in {"failed to subscribe to new heads", "subscription error"}

\* updateTopTraders and pollHistoricalBlocks are not running
SpawnedStopped ==
    /\ upd.pc \in {"notStarted", "returned"}
    /\ poll \in {"notStarted", "returned"}

\* C31: when Start has returned an error of the subscription, the
\* goroutines it spawned stop by themselves: they are stopped in the end
\* without the context being cancelled.
C31_NoTaskOutlivesStart ==
    (StartFailed /\ ~ctxDone) ~> (SpawnedStopped \/ ctxDone \/ crashed)

====
